---------------------------- MODULE Spec2Model ----------------------------
(***************************************************************************)
(* Trail-data acquisition pipeline of TrailMapper (services/api):          *)
(* fetchNearbyTrails, fetchOfflineTrails (readNearest), cacheTrailData     *)
(* (cache write path), processOsmData (process) and getTrailType           *)
(* (classify).                                                             *)
(*                                                                         *)
(* Numbers.  Latitudes and longitudes are integers counting thousandths of *)
(* a degree; rounded coordinates (Math.round(x * 100) / 100) are integers  *)
(* counting hundredths of a degree.  Floating point error is not modelled. *)
(* Strings.  An AsyncStorage key is the sequence of its "_"-separated      *)
(* parts, a stored value is the JSON text it holds, given as a record      *)
(* naming the shape of that text.                                          *)
(* Values of one variable are all of one shape so that they can be         *)
(* compared: the JavaScript value `undefined` is the record Undefined.     *)
(***************************************************************************)
EXTENDS Integers, Sequences, FiniteSets, TLC

(***************************************************************************)
(* Bounds of the model.                                                    *)
(***************************************************************************)
\* invocations (fetchNearbyTrails or readNearest) started in one behaviour
MaxInvocations == 2
\* invocations started while another one is in flight
MaxOverlaps == 1
\* values Date.now() may take
MaxTimestamp == 1
\* entries of the elements array given to processOsmData called on its own
MaxElements == 4

\* the invocation slots that may be in flight at the same time; an invocation
\* takes the first free slot
Calls == {"a", "b"}

Earlier(c) == {d \in Calls : c = "b" /\ d = "a"}

(***************************************************************************)
(* Trail classifier: getTrailType, isPathOrTrail, isBridleway.             *)
(* A tag set is a record of the tags the code reads; "" is an absent tag.  *)
(***************************************************************************)
NoTags ==
  [highway |-> "", horse |-> "", bicycle |-> "", foot |-> "",
   designation |-> "", name |-> ""]

\* activeFilters: supplied = FALSE is the omitted argument
NoFilters ==
  [supplied |-> FALSE, Bridleway |-> FALSE, Cycleway |-> FALSE,
   Footpath |-> FALSE, Path |-> FALSE]

Filters(b, c, f, p) ==
  [supplied |-> TRUE, Bridleway |-> b, Cycleway |-> c, Footpath |-> f,
   Path |-> p]

matchesBridleway(tags) ==
  \/ tags.highway = "bridleway"
  \/ tags.horse = "yes"
  \/ tags.horse = "designated"
  \/ tags.designation = "public_bridleway"

matchesCycleway(tags) ==
  \/ tags.highway = "cycleway"
  \/ tags.bicycle = "yes"
  \/ tags.bicycle = "designated"

\* variant: highway=path counts as a footpath
matchesFootpathOrPath(tags) ==
  \/ tags.highway = "footway"
  \/ tags.highway = "path"
  \/ tags.foot = "yes"
  \/ tags.foot = "designated"
  \/ tags.designation = "public_footpath"

matchesFootpath(tags) ==
  \/ tags.highway = "footway"
  \/ tags.foot = "yes"
  \/ tags.foot = "designated"
  \/ tags.designation = "public_footpath"

\* variant: Footpath is pushed first
possibleTypesFootpathFirst(tags) ==
  (IF matchesFootpath(tags) THEN <<"Footpath">> ELSE <<>>)
  \o (IF matchesBridleway(tags) THEN <<"Bridleway">> ELSE <<>>)
  \o (IF matchesCycleway(tags) THEN <<"Cycleway">> ELSE <<>>)

\* the array possibleTypes, in the order of the three pushes
possibleTypes(tags) ==
  (IF matchesBridleway(tags) THEN <<"Bridleway">> ELSE <<>>)
  \o (IF matchesCycleway(tags) THEN <<"Cycleway">> ELSE <<>>)
  \o (IF matchesFootpath(tags) THEN <<"Footpath">> ELSE <<>>)

InSeq(x, s) == \E i \in 1..Len(s) : s[i] = x

\* variant: Footpath > Cycleway > Bridleway
defaultPrecedenceReversed(p) ==
  IF InSeq("Footpath", p) THEN "Footpath"
  ELSE IF InSeq("Cycleway", p) THEN "Cycleway"
  ELSE IF InSeq("Bridleway", p) THEN "Bridleway"
  ELSE "Path"

\* Default precedence: Bridleway > Cycleway > Footpath
defaultPrecedence(p) ==
  IF InSeq("Bridleway", p) THEN "Bridleway"
  ELSE IF InSeq("Cycleway", p) THEN "Cycleway"
  ELSE IF InSeq("Footpath", p) THEN "Footpath"
  ELSE "Path"

\* variant: a way none of whose types is active is labelled Path
getTrailTypeHidesInactive(tags, activeFilters) ==
  LET p == possibleTypes(tags)
      active == SelectSeq(p, LAMBDA t : activeFilters[t])
  IN  IF Len(p) = 0 THEN "Path"
      ELSE IF activeFilters.supplied
           THEN IF Len(active) > 0 THEN active[1] ELSE "Path"
           ELSE defaultPrecedence(p)

getTrailType(tags, activeFilters) ==
  LET p == possibleTypes(tags)
      active == SelectSeq(p, LAMBDA t : activeFilters[t])
  IN  IF Len(p) = 0 THEN "Path"
      ELSE IF activeFilters.supplied
           THEN IF Len(active) > 0 THEN active[1] ELSE p[1]
           ELSE defaultPrecedence(p)

isPathOrTrail(tags) ==
  \/ tags.highway = "footway"
  \/ tags.highway = "cycleway"
  \/ tags.highway = "path"
  \/ tags.foot = "yes"
  \/ tags.bicycle = "yes"
  \/ tags.designation = "public_footpath"

isBridleway(tags) ==
  \/ tags.highway = "bridleway"
  \/ tags.horse = "yes"
  \/ tags.horse = "designated"
  \/ tags.designation = "public_bridleway"

(***************************************************************************)
(* Response elements.  type "null" is a null entry of the elements array.  *)
(* hasTags, hasNodes, hasPos tell whether the element carries `tags`,      *)
(* `nodes` and `lat`/`lon`.                                                *)
(***************************************************************************)
Node(id, la, lo) ==
  [type |-> "node", id |-> id, hasTags |-> FALSE, tags |-> NoTags,
   hasNodes |-> FALSE, nodes |-> <<>>, hasPos |-> TRUE, lat |-> la, lon |-> lo]

NodeNoPos(id) ==
  [type |-> "node", id |-> id, hasTags |-> FALSE, tags |-> NoTags,
   hasNodes |-> FALSE, nodes |-> <<>>, hasPos |-> FALSE, lat |-> 0, lon |-> 0]

Way(id, tags, nodes) ==
  [type |-> "way", id |-> id, hasTags |-> TRUE, tags |-> tags,
   hasNodes |-> TRUE, nodes |-> nodes, hasPos |-> FALSE, lat |-> 0, lon |-> 0]

WayNoNodes(id, tags) ==
  [type |-> "way", id |-> id, hasTags |-> TRUE, tags |-> tags,
   hasNodes |-> FALSE, nodes |-> <<>>, hasPos |-> FALSE, lat |-> 0, lon |-> 0]

\* a way printed by `out skel`: no tags
WayNoTags(id, nodes) ==
  [type |-> "way", id |-> id, hasTags |-> FALSE, tags |-> NoTags,
   hasNodes |-> TRUE, nodes |-> nodes, hasPos |-> FALSE, lat |-> 0, lon |-> 0]

Relation(id, tags) ==
  [type |-> "relation", id |-> id, hasTags |-> TRUE, tags |-> tags,
   hasNodes |-> FALSE, nodes |-> <<>>, hasPos |-> FALSE, lat |-> 0, lon |-> 0]

NullElement ==
  [type |-> "null", id |-> 0, hasTags |-> FALSE, tags |-> NoTags,
   hasNodes |-> FALSE, nodes |-> <<>>, hasPos |-> FALSE, lat |-> 0, lon |-> 0]

(***************************************************************************)
(* processOsmData.                                                         *)
(***************************************************************************)
RECURSIVE lastNodeAt(_, _, _)

\* variant: the scan for nodes stops one element short of the end
lastNodeAtSkipsLast(elements, id, i) ==
  IF i = 0 THEN 0
  ELSE IF i < Len(elements) /\ elements[i].type = "node" /\ elements[i].id = id
       THEN i
  ELSE lastNodeAt(elements, id, i - 1)

\* nodes[element.id] = {lat, lon}: the last node element of each id wins
lastNodeAt(elements, id, i) ==
  IF i = 0 THEN 0
  ELSE IF elements[i].type = "node" /\ elements[i].id = id THEN i
  ELSE lastNodeAt(elements, id, i - 1)

\* the point a node id resolves to; def = FALSE is {lat: undefined, lon: undefined}
pointOf(e) == [def |-> e.hasPos, lat |-> e.lat, lon |-> e.lon]

RECURSIVE resolveNodes(_, _)

\* variant: the coordinates come out in the opposite order
resolveNodesReversed(elements, ids) ==
  IF ids = <<>> THEN <<>>
  ELSE LET i == lastNodeAt(elements, Head(ids), Len(elements))
       IN  resolveNodes(elements, Tail(ids))
           \o (IF i = 0 THEN <<>> ELSE <<pointOf(elements[i])>>)

\* element.nodes.map(id => nodes[id]).filter(node => node !== undefined)
resolveNodes(elements, ids) ==
  IF ids = <<>> THEN <<>>
  ELSE LET i == lastNodeAt(elements, Head(ids), Len(elements))
       IN  (IF i = 0 THEN <<>> ELSE <<pointOf(elements[i])>>)
           \o resolveNodes(elements, Tail(ids))

\* calculatePathDistance followed by parseFloat(distance.toFixed(2)): the
\* Haversine sum is kept as a term over the coordinates it is taken along;
\* it is NaN as soon as one coordinate has no lat/lon.
pathDistance(coords) ==
  IF \E i \in 1..Len(coords) : ~coords[i].def
  THEN [kind |-> "NaN", along |-> <<>>]
  ELSE [kind |-> "km", along |-> coords]

typePathName(trailType) == <<trailType, " Path">>

trailName(tags, trailType) ==
  IF tags.name # "" THEN <<tags.name>> ELSE typePathName(trailType)

\* variant: relations are taken as well as ways
eligibleWayOrRelation(element) ==
  /\ element.type \in {"way", "relation"}
  /\ element.hasTags
  /\ (isPathOrTrail(element.tags) \/ isBridleway(element.tags))

\* element.type === 'way' && element.tags && (isPathOrTrail || isBridleway)
eligibleWay(element) ==
  /\ element.type = "way"
  /\ element.hasTags
  /\ (isPathOrTrail(element.tags) \/ isBridleway(element.tags))

\* variant: the id is prefixed with the element's type
recordIdTypePrefix(element) == <<element.type, element.id>>

\* `osm-${element.id}`
recordId(element) == <<"osm-", element.id>>

\* variant: the record is labelled with the way's highway tag
trailOfHighway(element, coords, activeFilters) ==
  LET trailType == getTrailType(element.tags, activeFilters)
  IN  [id |-> recordId(element),
       name |-> trailName(element.tags, trailType),
       type |-> element.tags.highway,
       distance |-> pathDistance(coords),
       coordinates |-> coords]

\* the record pushed for one eligible way, given its resolved coordinates
trailOf(element, coords, activeFilters) ==
  LET trailType == getTrailType(element.tags, activeFilters)
  IN  [id |-> recordId(element),
       name |-> trailName(element.tags, trailType),
       type |-> trailType,
       distance |-> pathDistance(coords),
       coordinates |-> coords]

RECURSIVE processFrom(_, _, _)

\* variant: a way is kept as soon as one of its nodes resolves
processFromOneNode(elements, i, activeFilters) ==
  IF i > Len(elements) THEN <<>>
  ELSE LET element == elements[i]
           coords == resolveNodes(elements, element.nodes)
       IN  (IF eligibleWay(element) /\ Len(coords) > 0
            THEN <<trailOf(element, coords, activeFilters)>>
            ELSE <<>>)
           \o processFrom(elements, i + 1, activeFilters)

\* the second forEach, over elements[i..]
processFrom(elements, i, activeFilters) ==
  IF i > Len(elements) THEN <<>>
  ELSE LET element == elements[i]
           coords == resolveNodes(elements, element.nodes)
       IN  (IF eligibleWay(element) /\ Len(coords) > 1
            THEN <<trailOf(element, coords, activeFilters)>>
            ELSE <<>>)
           \o processFrom(elements, i + 1, activeFilters)

\* element.type of a null element and element.nodes.map of a way without
\* `nodes` throw a TypeError
processThrows(elements) ==
  \/ \E i \in 1..Len(elements) : elements[i].type = "null"
  \/ \E i \in 1..Len(elements) :
        eligibleWay(elements[i]) /\ ~elements[i].hasNodes

\* variant: the records come out last way first
processOsmDataReversed(elements, activeFilters) ==
  IF processThrows(elements)
  THEN [threw |-> TRUE, trails |-> <<>>]
  ELSE LET t == processFrom(elements, 1, activeFilters)
       IN  [threw |-> FALSE,
            trails |-> [k \in 1..Len(t) |-> t[Len(t) + 1 - k]]]

processOsmData(elements, activeFilters) ==
  IF processThrows(elements)
  THEN [threw |-> TRUE, trails |-> <<>>]
  ELSE [threw |-> FALSE, trails |-> processFrom(elements, 1, activeFilters)]

(***************************************************************************)
(* Offline cache: keys, stored values, JSON.                               *)
(***************************************************************************)
\* Math.round(x * 100) / 100 in hundredths: Math.round rounds halves up
round2(x) == (x + 5) \div 10

\* `trails_${Math.round(latitude * 100) / 100}_${Math.round(longitude * 100) / 100}`
cacheKey(latitude, longitude) == <<"trails", round2(latitude), round2(longitude)>>

\* a key some other part of the application keeps in AsyncStorage
OtherKey == <<"settings">>

\* the closestKey before the loop: ''
EmptyKey == <<>>

\* key.startsWith('trails_')
isTrailKey(key) == Len(key) > 1 /\ key[1] = "trails"

\* JSON.stringify of the trails array: a NaN distance is written as null
jsonTrail(trail) ==
  [trail EXCEPT !.distance =
     IF trail.distance.kind = "NaN"
     THEN [kind |-> "null", along |-> <<>>]
     ELSE trail.distance]

jsonTrails(trails) == [i \in 1..Len(trails) |-> jsonTrail(trails[i])]

\* JSON.stringify({timestamp: Date.now(), data: trails})
stringifyEntry(timestamp, trails) ==
  [kind |-> "entry", timestamp |-> timestamp, data |-> jsonTrails(trails)]

\* stored texts that cacheTrailData never writes: text that is not JSON, the
\* text `null`, an object without `data`, and the empty string
ForeignValue(kind) == [kind |-> kind, timestamp |-> 0, data |-> <<>>]

\* what AsyncStorage.getItem resolves to for a missing key
NullItem == [kind |-> "missing", timestamp |-> 0, data |-> <<>>]

\* what getItem settles with: ok = FALSE is a rejected promise
NoItem == [ok |-> FALSE, value |-> NullItem]

\* the values a promise of Trail[] resolves to
List(items) == [kind |-> "list", items |-> items]

Undefined == [kind |-> "undefined", items |-> <<>>]

\* `if (cachedData)`: null and the empty string are falsy
truthy(value) == value.kind \notin {"missing", "empty"}

\* JSON.parse(cachedData) throws a SyntaxError on text that is not JSON
jsonParseThrows(value) == value.kind = "garbage"

\* `const { data } = null` throws a TypeError
destructureThrows(value) == value.kind = "null"

\* `const { data } = JSON.parse(cachedData)`: the `data` property of the
\* parsed value, undefined when it has none
dataOf(value) ==
  IF value.kind = "entry" THEN List(value.data) ELSE Undefined

\* Math.pow(keyLat - roundedLat, 2) + Math.pow(keyLon - roundedLon, 2), in
\* hundredths squared; Math.sqrt is monotone, so comparing the sums compares
\* the distances
keyDistance2(key, roundedLat, roundedLon) ==
  (key[2] - roundedLat) * (key[2] - roundedLat)
  + (key[3] - roundedLon) * (key[3] - roundedLon)

\* variant: the comparison is turned around
closerThanFlipped(d, best) == best.inf \/ d > best.d

\* the loop `for (const key of trailKeys)`; best.inf is minDistance = Infinity
closerThan(d, best) == best.inf \/ d < best.d

RECURSIVE closestFrom(_, _, _, _, _)
closestFrom(trailKeys, i, roundedLat, roundedLon, best) ==
  IF i > Len(trailKeys) THEN best
  ELSE LET d == keyDistance2(trailKeys[i], roundedLat, roundedLon)
       IN  closestFrom(trailKeys, i + 1, roundedLat, roundedLon,
             IF closerThan(d, best)
             THEN [key |-> trailKeys[i], inf |-> FALSE, d |-> d]
             ELSE best)

closestKeyOf(trailKeys, latitude, longitude) ==
  closestFrom(trailKeys, 1, round2(latitude), round2(longitude),
              [key |-> EmptyKey, inf |-> TRUE, d |-> 0]).key

\* the orders in which getAllKeys may list the keys of the store
Orders(S) ==
  {s \in [1..Cardinality(S) -> S] :
     \A i, j \in 1..Cardinality(S) : s[i] = s[j] => i = j}

(***************************************************************************)
(* Inputs.                                                                 *)
(***************************************************************************)
\* query points <<latitude, longitude>> in thousandths of a degree: both
\* round to the key (5150, -12), the first one down and the second one up
\* from the halves 5149.5 and -12.5
Points == {<<51504, -116>>, <<51495, -125>>}

\* activeFilters as the map screen passes it, and the omitted argument
FilterChoices == {NoFilters, Filters(FALSE, TRUE, TRUE, TRUE)}

\* every activeFilters over the four categories, and the omitted argument
AllFilters ==
  {NoFilters} \cup {Filters(b, c, f, p) : b, c, f, p \in BOOLEAN}

\* the tag sets over the values getTrailType compares with, one value per
\* tag that it does not compare with ("path"), and the absent tag
TagSets ==
  [highway : {"", "bridleway", "cycleway", "footway", "path"},
   horse : {"", "yes", "designated"},
   bicycle : {"", "yes", "designated"},
   foot : {"", "yes", "designated"},
   designation : {"", "public_bridleway", "public_footpath"},
   name : {""}]

Timestamps == 1..MaxTimestamp

SharedUse == [NoTags EXCEPT !.highway = "footway", !.horse = "yes"]

PlainPath == [NoTags EXCEPT !.highway = "path", !.name = "Ridge"]

HikingRoute == [NoTags EXCEPT !.name = "Way"]

Footway == [NoTags EXCEPT !.highway = "footway"]

FootDesignated == [NoTags EXCEPT !.foot = "designated"]

\* the `elements` arrays a response may carry; in the first one node 9 of
\* way 10 and node 8 of way 13 are not part of the response
SharedUseElements ==
  <<Way(10, SharedUse, <<1, 2, 9, 3>>), Node(1, 51500, -120),
    Node(2, 51501, -121), Node(3, 51502, -122), Relation(20, HikingRoute),
    Way(13, PlainPath, <<3, 8>>)>>

NoPosElements ==
  <<NodeNoPos(1), Node(2, 51501, -121), Way(12, PlainPath, <<1, 2>>)>>

ElementLists ==
  {SharedUseElements,
   <<>>,
   NoPosElements,
   <<WayNoNodes(11, SharedUse)>>,
   <<Node(1, 51500, -120), NullElement>>}

\* what `await response.json()` gives: a rejection, null, an object without
\* `elements`, one whose `elements` is not an array, or an elements array
BodyOutcome(kind, elements) == [kind |-> kind, elements |-> elements]

Bodies ==
  {BodyOutcome(k, <<>>) : k \in {"reject", "null", "noelements", "notarray"}}
  \cup {BodyOutcome("ok", e) : e \in ElementLists}

\* !data || !data.elements || !Array.isArray(data.elements)
invalidFormat(body) == body.kind \in {"null", "noelements", "notarray"}

\* what NetInfo.fetch() gives: isConnected true, false or null, or a rejection
ProbeOutcomes == {"connected", "disconnected", "unknown", "throws"}

EmptyStore == <<>>

\* entries previous sessions of the application left behind: trails cached
\* for points around the query points
OldTrails(id) ==
  processOsmData(<<Node(1, 51500, -120), Node(2, 51501, -121),
                   Way(id, PlainPath, <<1, 2>>)>>, NoFilters).trails

OldEntry(latitude, longitude, id) ==
  (cacheKey(latitude, longitude) :> stringifyEntry(1, OldTrails(id)))

\* keys (5149, -12) and (5151, -12) are equally far from (5150, -12)
TiedStore ==
  OldEntry(51490, -120, 31) @@ OldEntry(51510, -120, 32)
  @@ (OtherKey :> ForeignValue("garbage"))

\* an entry under the key of the query points, (5150, -12), and a farther
\* one under (5153, -12)
FarStore == OldEntry(51530, -120, 33) @@ OldEntry(51500, -120, 32)

\* the stores the application may start with
InitialStores ==
  {EmptyStore, (OtherKey :> ForeignValue("garbage")), TiedStore, FarStore}

(***************************************************************************)
(* State.                                                                  *)
(***************************************************************************)
VARIABLES
  storage,   \* AsyncStorage: key -> stored text
  inv,       \* per slot: the frame of the invocation in flight
  started,   \* invocations started so far
  overlaps,  \* invocations started while another one was in flight
  classified, \* a direct call of getTrailType: its arguments and its result
  processCall, \* a direct call of processOsmData: its arguments and its result
  screen     \* the map screen: its filter state and the refetch of a toggle

vars == <<storage, inv, started, overlaps, classified, processCall, screen>>

\* A frame.
\* pc: idle, probe (await NetInfo.fetch), fetch (await fetch), body (await
\* response.json), write (await setItem), keys (await getAllKeys), item
\* (await getItem), done.
\* Written by the code: latitude, longitude, activeFilters, timer (the
\* setTimeout), requests (fetch calls made), trails, pendingKey,
\* pendingValue, offLat, offLon (the arguments of fetchOfflineTrails),
\* closestKey, path (the return statement taken), offResult (what
\* fetchOfflineTrails returned), result and outcome (the settled promise).
\* What the collaborators did: fn, probes, connected (yes, no, throws),
\* response (ok, failed, late), elapsed, body (usable, unusable), data,
\* write (stored, replaced, failed), listing (listed, rejected), listed, item.
Idle ==
  [pc |-> "idle", fn |-> "none", latitude |-> 0, longitude |-> 0,
   activeFilters |-> NoFilters, path |-> "none", timer |-> "none",
   requests |-> 0, trails |-> <<>>, pendingKey |-> EmptyKey,
   pendingValue |-> NullItem, offLat |-> 0, offLon |-> 0,
   closestKey |-> EmptyKey, offResult |-> List(<<>>),
   result |-> List(<<>>), outcome |-> "none",
   probes |-> 0, connected |-> "none", response |-> "none",
   elapsed |-> FALSE, body |-> "none", data |-> <<>>, write |-> "none",
   listing |-> "none", listed |-> {}, item |-> NoItem]

\* getTrailType has not been called on its own
Unclassified ==
  [called |-> FALSE, tags |-> NoTags, activeFilters |-> NoFilters,
   type |-> ""]

\* processOsmData has not been called on its own
NotProcessed ==
  [called |-> FALSE, elements |-> <<>>, activeFilters |-> NoFilters,
   threw |-> FALSE, trails |-> <<>>]

\* the map screen after its first render: every trail type shown
\* (useState of showTrailTypes), no current region, no toggle made.
\* showTrailTypes is the state React holds, rendered is the showTrailTypes
\* of the latest render, the one the handlers on screen close over; stale
\* says that state was set since that render.
\* refetched, passed, passedLat, passedLon, newFilters: the latest call of
\* fetchNearbyTrails made by toggleTrailType, the activeFilters and point it
\* passed, and the newFilters of that toggle.
MountedScreen ==
  [showTrailTypes |-> Filters(TRUE, TRUE, TRUE, TRUE),
   rendered |-> Filters(TRUE, TRUE, TRUE, TRUE),
   stale |-> FALSE, hasRegion |-> FALSE, latitude |-> 0, longitude |-> 0,
   refetched |-> FALSE, passed |-> Filters(TRUE, TRUE, TRUE, TRUE),
   passedLat |-> 0, passedLon |-> 0,
   newFilters |-> Filters(TRUE, TRUE, TRUE, TRUE)]

Init ==
  /\ storage \in InitialStores
  /\ inv = [c \in Calls |-> Idle]
  /\ started = 0
  /\ overlaps = 0
  /\ classified = Unclassified
  /\ processCall = NotProcessed
  /\ screen = MountedScreen

(***************************************************************************)
(* Starting an invocation.                                                 *)
(***************************************************************************)
inFlight(c) == inv[c].pc \notin {"idle", "done"}

\* slot c is free, the slots before it are busy, and the bounds allow one more
\* invocation
startable(c) ==
  /\ inv[c].pc = "idle"
  /\ \A d \in Earlier(c) : inFlight(d)
  /\ started < MaxInvocations
  /\ (\E d \in Calls : inFlight(d)) => overlaps < MaxOverlaps

countStart(c) ==
  /\ started' = started + 1
  /\ overlaps' = IF \E d \in Calls : inFlight(d) THEN overlaps + 1 ELSE overlaps

(***************************************************************************)
(* Steps of fetchOfflineTrails.                                            *)
(***************************************************************************)
\* the call fetchOfflineTrails(latitude, longitude): it runs up to its first
\* await, AsyncStorage.getAllKeys()
fetchOfflineTrails(f, latitude, longitude, path) ==
  [f EXCEPT !.pc = "keys", !.offLat = latitude, !.offLon = longitude,
            !.path = path]

\* variant: the cached records are filtered by the call's activeFilters
returnOfflineFiltered(f, value) ==
  LET shown == [value EXCEPT !.items =
                  SelectSeq(value.items,
                            LAMBDA r : \/ ~f.activeFilters.supplied
                                       \/ f.activeFilters[r.type])]
  IN  [f EXCEPT !.pc = "done", !.offResult = shown, !.result = shown,
                !.outcome = "resolved"]

\* fetchOfflineTrails returns value; its caller, when there is one, returns
\* the same promise
returnOffline(f, value) ==
  [f EXCEPT !.pc = "done", !.offResult = value, !.result = value,
            !.outcome = "resolved"]

\* `catch (error) { ...; return [] }` of fetchOfflineTrails
catchOffline(f) == returnOffline(f, List(<<>>))

\* keys.filter((key) => key.startsWith('trails_'))
trailKeysOf(keys) == SelectSeq(keys, isTrailKey)

\* getAllKeys has resolved with `keys`: filter, return [] when nothing is
\* left, else run the loop and call getItem(closestKey)
afterGetAllKeys(f, keys) ==
  LET trailKeys == trailKeysOf(keys)
  IN  IF Len(trailKeys) = 0
      THEN returnOffline(f, List(<<>>))
      ELSE [f EXCEPT !.pc = "item",
                     !.closestKey = closestKeyOf(trailKeys, f.offLat, f.offLon)]

\* variant: an entry whose timestamp is too old counts as absent
afterGetItemExpires(f, item) ==
  IF ~item.ok THEN catchOffline(f)
  ELSE IF ~truthy(item.value) \/ item.value.timestamp < 1
       THEN returnOffline(f, List(<<>>))
  ELSE IF jsonParseThrows(item.value) \/ destructureThrows(item.value)
       THEN catchOffline(f)
       ELSE returnOffline(f, dataOf(item.value))

\* getItem has settled with item: the rest of the try block and the catch
afterGetItem(f, item) ==
  IF ~item.ok THEN catchOffline(f)
  ELSE IF ~truthy(item.value) THEN returnOffline(f, List(<<>>))
  ELSE IF jsonParseThrows(item.value) \/ destructureThrows(item.value)
       THEN catchOffline(f)
       ELSE returnOffline(f, dataOf(item.value))

\* AsyncStorage.getItem(key)
getItem(store, key) ==
  [ok |-> TRUE, value |-> IF key \in DOMAIN store THEN store[key] ELSE NullItem]

\* variant: a key already present keeps its value
setItemKeepsOld(store, key, value) == store @@ (key :> value)

\* AsyncStorage.setItem(key, value)
setItem(store, key, value) == (key :> value) @@ store

\* an exported call of fetchOfflineTrails (readNearest)
ReadNearest(c) ==
  /\ startable(c)
  /\ \E p \in Points :
       inv' = [inv EXCEPT ![c] =
                 fetchOfflineTrails([Idle EXCEPT !.fn = "fetchOfflineTrails"],
                                    p[1], p[2], "direct")]
  /\ countStart(c)
  /\ UNCHANGED <<storage, classified, processCall, screen>>

GetAllKeysDone(c) ==
  /\ inv[c].pc = "keys"
  /\ \/ inv' = [inv EXCEPT ![c] =
                  catchOffline([inv[c] EXCEPT !.listing = "rejected"])]
     \/ \E keys \in Orders(DOMAIN storage) :
          inv' = [inv EXCEPT ![c] =
                    afterGetAllKeys([inv[c] EXCEPT !.listing = "listed",
                                                   !.listed = DOMAIN storage],
                                    keys)]
  /\ UNCHANGED <<storage, started, overlaps, classified, processCall, screen>>

\* variant: reading an entry resets its timestamp
GetItemDoneTouches(c) ==
  /\ inv[c].pc = "item"
  /\ \E item \in {NoItem, getItem(storage, inv[c].closestKey)} :
       inv' = [inv EXCEPT ![c] = afterGetItem([inv[c] EXCEPT !.item = item], item)]
  /\ storage' = [k \in DOMAIN storage |->
                   IF k = inv[c].closestKey
                   THEN [storage[k] EXCEPT !.timestamp = 0] ELSE storage[k]]
  /\ UNCHANGED <<started, overlaps, classified, processCall, screen>>

\* `await AsyncStorage.getItem(closestKey)` settles
GetItemDone(c) ==
  /\ inv[c].pc = "item"
  /\ \E item \in {NoItem, getItem(storage, inv[c].closestKey)} :
       inv' = [inv EXCEPT ![c] = afterGetItem([inv[c] EXCEPT !.item = item], item)]
  /\ UNCHANGED <<storage, started, overlaps, classified, processCall, screen>>

(***************************************************************************)
(* Steps of fetchNearbyTrails.                                             *)
(***************************************************************************)
\* variant: the outer catch rethrows
catchOuterRethrows(f) == [f EXCEPT !.pc = "done", !.outcome = "rejected"]

\* the outer `catch (error)`: return fetchOfflineTrails(latitude, longitude)
catchOuter(f) == fetchOfflineTrails(f, f.latitude, f.longitude, "fallback")

\* variant: a failed request makes the call check connectivity once more
catchInnerProbesAgain(f) ==
  IF f.probes < 2
  THEN [f EXCEPT !.pc = "probe", !.timer = "none", !.elapsed = FALSE,
                 !.probes = f.probes + 1]
  ELSE catchOuter([f EXCEPT !.timer = "none", !.elapsed = FALSE])

\* the inner `catch (fetchError)`: logs and rethrows to the outer catch.  The
\* request is over: its timer and its deadline have no effect from here on
\* (abort() on a settled request does nothing)
catchInner(f) == catchOuter([f EXCEPT !.timer = "none", !.elapsed = FALSE])

\* variant: only `isConnected === false` counts as offline
afterProbeStrict(f, probe) ==
  CASE probe = "throws" -> catchOuter(f)
    [] probe = "disconnected" ->
         fetchOfflineTrails(f, f.latitude, f.longitude, "offline")
    [] OTHER ->
         [f EXCEPT !.pc = "fetch", !.timer = "armed",
                   !.requests = f.requests + 1]

\* if (!networkState.isConnected) return fetchOfflineTrails(latitude, longitude)
\* else: new AbortController, setTimeout(abort, 10000), fetch(...)
afterProbe(f, probe) ==
  CASE probe = "throws" -> catchOuter(f)
    [] probe = "connected" ->
         [f EXCEPT !.pc = "fetch", !.timer = "armed",
                   !.requests = f.requests + 1]
    [] OTHER -> fetchOfflineTrails(f, f.latitude, f.longitude, "offline")

\* variant: response.ok is not looked at
afterResponseAnyStatus(f, ok) == [f EXCEPT !.timer = "cleared", !.pc = "body"]

\* fetch has resolved: clearTimeout(timeoutId); if (!response.ok) throw;
\* then await response.json()
afterResponse(f, ok) ==
  LET g == [f EXCEPT !.timer = "cleared"]
  IN  IF ok THEN [g EXCEPT !.pc = "body"] ELSE catchInner(g)

\* variant: the write is started and not awaited
cacheTrailDataNotAwaited(f, latitude, longitude, trails, now) ==
  [f EXCEPT !.pc = "write",
            !.pendingKey = cacheKey(latitude, longitude),
            !.pendingValue = stringifyEntry(now, trails),
            !.result = List(trails), !.outcome = "resolved"]

\* cacheTrailData up to `await AsyncStorage.setItem(key, JSON.stringify(...))`
cacheTrailData(f, latitude, longitude, trails, now) ==
  [f EXCEPT !.pc = "write",
            !.pendingKey = cacheKey(latitude, longitude),
            !.pendingValue = stringifyEntry(now, trails)]

\* variant: an empty list is returned without being cached
afterBodySkipsEmpty(f, body, now) ==
  IF body.kind = "reject" \/ invalidFormat(body)
  THEN catchInner(f)
  ELSE LET r == processOsmData(body.elements, f.activeFilters)
       IN  IF r.threw
           THEN catchInner(f)
           ELSE IF r.trails = <<>>
                THEN [f EXCEPT !.pc = "done", !.path = "success",
                               !.trails = r.trails, !.elapsed = FALSE,
                               !.result = List(r.trails),
                               !.outcome = "resolved"]
                ELSE cacheTrailData([f EXCEPT !.trails = r.trails,
                                              !.elapsed = FALSE],
                                    f.latitude, f.longitude, r.trails, now)

\* response.json() has settled: the format check, processOsmData, and
\* `await cacheTrailData(latitude, longitude, trails)`
afterBody(f, body, now) ==
  IF body.kind = "reject" \/ invalidFormat(body)
  THEN catchInner(f)
  ELSE LET r == processOsmData(body.elements, f.activeFilters)
       IN  IF r.threw
           THEN catchInner(f)
           ELSE cacheTrailData([f EXCEPT !.trails = r.trails,
                                         !.elapsed = FALSE],
                               f.latitude, f.longitude, r.trails, now)

\* variant: cacheTrailData has no try/catch, a failed write reaches the
\* outer catch
afterWriteThrows(f, ok) ==
  IF ok
  THEN [f EXCEPT !.pc = "done", !.path = "success",
                 !.result = List(f.trails), !.outcome = "resolved"]
  ELSE catchOuter(f)

\* setItem has settled (a rejection is caught inside cacheTrailData):
\* `return trails`
afterWrite(f, ok) ==
  [f EXCEPT !.pc = "done", !.path = "success",
            !.result = List(f.trails), !.outcome = "resolved"]

\* the timer callback: controller.abort() makes a pending fetch reject with
\* an AbortError
timerFires(f) ==
  IF f.pc = "fetch"
  THEN catchInner([f EXCEPT !.timer = "fired"])
  ELSE [f EXCEPT !.timer = "fired"]

\* whether the body read gave an object with an `elements` array
usable(body) == IF body.kind = "ok" THEN "usable" ELSE "unusable"

\* what the probe said about isConnected
connectedOf(probe) ==
  CASE probe = "connected" -> "yes"
    [] probe = "throws" -> "throws"
    [] OTHER -> "no"

\* variant: a call that starts aborts the request of every call in flight
FetchNearbyTrailsAbortsOlder(c) ==
  /\ startable(c)
  /\ \E p \in Points, filters \in FilterChoices :
       inv' = [d \in Calls |->
                 IF d = c
                 THEN [Idle EXCEPT !.pc = "probe", !.fn = "fetchNearbyTrails",
                                   !.latitude = p[1], !.longitude = p[2],
                                   !.activeFilters = filters, !.probes = 1]
                 ELSE IF inv[d].pc = "fetch" THEN catchInner(inv[d])
                 ELSE inv[d]]
  /\ countStart(c)
  /\ UNCHANGED <<storage, classified, processCall, screen>>

\* a call of fetchNearbyTrails(latitude, longitude, 5000, activeFilters) up
\* to `await NetInfo.fetch()`
FetchNearbyTrails(c) ==
  /\ startable(c)
  /\ \E p \in Points, filters \in FilterChoices :
       inv' = [inv EXCEPT ![c] =
                 [Idle EXCEPT !.pc = "probe", !.fn = "fetchNearbyTrails",
                              !.latitude = p[1], !.longitude = p[2],
                              !.activeFilters = filters, !.probes = 1]]
  /\ countStart(c)
  /\ UNCHANGED <<storage, classified, processCall, screen>>

NetInfoDone(c) ==
  /\ inv[c].pc = "probe"
  /\ \E probe \in ProbeOutcomes :
       inv' = [inv EXCEPT ![c] =
                 afterProbe([inv[c] EXCEPT !.connected = connectedOf(probe)],
                            probe)]
  /\ UNCHANGED <<storage, started, overlaps, classified, processCall, screen>>

FetchResponds(c) ==
  /\ inv[c].pc = "fetch"
  /\ \E ok \in BOOLEAN :
       inv' = [inv EXCEPT ![c] =
                 afterResponse([inv[c] EXCEPT !.response =
                                  IF ok THEN "ok" ELSE "failed"], ok)]
  /\ UNCHANGED <<storage, started, overlaps, classified, processCall, screen>>

\* fetch rejects with a network error
FetchRejects(c) ==
  /\ inv[c].pc = "fetch"
  /\ inv' = [inv EXCEPT ![c] = catchInner([inv[c] EXCEPT !.response = "failed"])]
  /\ UNCHANGED <<storage, started, overlaps, classified, processCall, screen>>

\* ten seconds have passed since setTimeout while the request is in
\* progress; the callback runs if the timer is still armed
DeadlinePasses(c) ==
  /\ inv[c].pc \in {"fetch", "body"}
  /\ ~inv[c].elapsed
  /\ LET f == [inv[c] EXCEPT !.elapsed = TRUE,
                             !.response = IF @ = "none" THEN "late" ELSE @]
     IN  inv' = [inv EXCEPT ![c] =
                   IF f.timer = "armed" THEN timerFires(f) ELSE f]
  /\ UNCHANGED <<storage, started, overlaps, classified, processCall, screen>>

BodyRead(c) ==
  /\ inv[c].pc = "body"
  /\ \E body \in Bodies, now \in Timestamps :
       inv' = [inv EXCEPT ![c] =
                 afterBody([inv[c] EXCEPT !.body = usable(body),
                                          !.data = body.elements],
                           body, now)]
  /\ UNCHANGED <<storage, started, overlaps, classified, processCall, screen>>

SetItemDone(c) ==
  /\ inv[c].pc = "write"
  /\ \E ok \in BOOLEAN :
       /\ storage' = IF ok
                     THEN setItem(storage, inv[c].pendingKey,
                                  inv[c].pendingValue)
                     ELSE storage
       /\ inv' = [inv EXCEPT ![c] =
                    afterWrite([inv[c] EXCEPT !.write =
                                  IF ~ok THEN "failed"
                                  ELSE IF inv[c].pendingKey \in DOMAIN storage
                                       THEN "replaced" ELSE "stored"], ok)]
  /\ UNCHANGED <<started, overlaps, classified, processCall, screen>>

\* the caller has taken the settled promise; the slot is free again
Release(c) ==
  /\ inv[c].pc = "done"
  /\ inv' = [inv EXCEPT ![c] = Idle]
  /\ UNCHANGED <<storage, started, overlaps, classified, processCall, screen>>

\* a settled promise is taken by its awaiting caller (a microtask) before any
\* other completion is delivered or any other call is made
noneSettled == \A d \in Calls : inv[d].pc # "done"

Step(c) ==
  \/ noneSettled /\ FetchNearbyTrails(c)
  \/ noneSettled /\ ReadNearest(c)
  \/ noneSettled /\ NetInfoDone(c)
  \/ noneSettled /\ FetchResponds(c)
  \/ noneSettled /\ FetchRejects(c)
  \/ noneSettled /\ DeadlinePasses(c)
  \/ noneSettled /\ BodyRead(c)
  \/ noneSettled /\ SetItemDone(c)
  \/ noneSettled /\ GetAllKeysDone(c)
  \/ noneSettled /\ GetItemDone(c)
  \/ Release(c)

Next == \E c \in Calls : Step(c)

Spec == Init /\ [][Next]_vars

\* the store may also hold, under a trail key, a text that cacheTrailData
\* did not write
ForeignStores ==
  {(cacheKey(51504, -116) :> ForeignValue(k)) :
     k \in {"nodata", "garbage", "null", "empty"}}

InitForeign ==
  /\ storage \in InitialStores \cup ForeignStores
  /\ inv = [c \in Calls |-> Idle]
  /\ started = 0
  /\ overlaps = 0
  /\ classified = Unclassified
  /\ processCall = NotProcessed
  /\ screen = MountedScreen

ForeignSpec == InitForeign /\ [][Next]_vars

\* the application starts with nothing in AsyncStorage
InitEmpty ==
  /\ storage = EmptyStore
  /\ inv = [c \in Calls |-> Idle]
  /\ started = 0
  /\ overlaps = 0
  /\ classified = Unclassified
  /\ processCall = NotProcessed
  /\ screen = MountedScreen

EmptySpec == InitEmpty /\ [][Next]_vars

(***************************************************************************)
(* The map screen: toggleTrailType, fetchTrails, onRegionChangeComplete.   *)
(* A press is handled with the handlers of the latest render, and React    *)
(* renders again after a handler that set state before the next event is   *)
(* delivered.                                                              *)
(***************************************************************************)
\* the trail types that have a toggle button
ToggleTypes == {"Bridleway", "Cycleway", "Footpath"}

\* fetchTrails(latitude, longitude) of the latest render: it calls
\* fetchNearbyTrails(latitude, longitude, 5000, showTrailTypes) with the
\* showTrailTypes of that render
fetchTrails(s, latitude, longitude) ==
  [s EXCEPT !.refetched = TRUE, !.passed = s.rendered,
            !.passedLat = latitude, !.passedLon = longitude]

\* toggleTrailType(type): the updater given to setShowTrailTypes builds
\* newFilters from prev, calls fetchTrails when there is a current region,
\* and returns newFilters as the next state
toggleTrailType(s, type) ==
  LET prev == s.showTrailTypes
      newFilters == [prev EXCEPT ![type] = ~prev[type]]
      t == IF s.hasRegion
           THEN [fetchTrails(s, s.latitude, s.longitude)
                   EXCEPT !.newFilters = newFilters]
           ELSE s
  IN  [t EXCEPT !.showTrailTypes = newFilters, !.stale = TRUE]

\* onRegionChangeComplete(region): setCurrentRegion(region)
onRegionChangeComplete(s, latitude, longitude) ==
  [s EXCEPT !.hasRegion = TRUE, !.latitude = latitude,
            !.longitude = longitude, !.stale = TRUE]

\* the component function runs again with the state React holds
render(s) == [s EXCEPT !.rendered = s.showTrailTypes, !.stale = FALSE]

ToggleTrailType(type) ==
  /\ ~screen.stale
  /\ screen' = toggleTrailType(screen, type)
  /\ UNCHANGED <<storage, inv, started, overlaps, classified, processCall>>

OnRegionChangeComplete(p) ==
  /\ ~screen.stale
  /\ screen' = onRegionChangeComplete(screen, p[1], p[2])
  /\ UNCHANGED <<storage, inv, started, overlaps, classified, processCall>>

Render ==
  /\ screen.stale
  /\ screen' = render(screen)
  /\ UNCHANGED <<storage, inv, started, overlaps, classified, processCall>>

NextScreen ==
  \/ \E type \in ToggleTypes : ToggleTrailType(type)
  \/ \E p \in Points : OnRegionChangeComplete(p)
  \/ Render

ScreenSpec == InitEmpty /\ [][NextScreen]_vars

(***************************************************************************)
(* processOsmData called on its own, for each elements array of at most    *)
(* MaxElements entries taken from ProcessElements.                         *)
(***************************************************************************)
\* three nodes; a footway over the three; a shared-use way one of whose
\* references (9) is to no node of the response; a path with the footway's
\* id; a way tagged foot=designated only; a way without tags; a relation
\* with the footway's id and tags
ProcessElements ==
  {Node(1, 51500, -120), Node(2, 51501, -121), Node(3, 51502, -122),
   Way(10, Footway, <<1, 2, 3>>),
   Way(11, SharedUse, <<2, 9, 1>>),
   Way(10, PlainPath, <<2, 1>>),
   Way(12, FootDesignated, <<1, 2>>),
   WayNoTags(11, <<2, 9, 1>>),
   Relation(10, Footway)}

ElementSeqs == UNION {[1..n -> ProcessElements] : n \in 0..MaxElements}

InitProcess ==
  /\ storage = EmptyStore
  /\ inv = [c \in Calls |-> Idle]
  /\ started = 0
  /\ overlaps = 0
  /\ classified = Unclassified
  /\ \E elements \in ElementSeqs, activeFilters \in FilterChoices :
       processCall = [NotProcessed EXCEPT !.elements = elements,
                                       !.activeFilters = activeFilters]
  /\ screen = MountedScreen

ProcessOsmData ==
  /\ ~processCall.called
  /\ LET r == processOsmData(processCall.elements, processCall.activeFilters)
     IN  processCall' = [processCall EXCEPT !.called = TRUE, !.threw = r.threw,
                                        !.trails = r.trails]
  /\ UNCHANGED <<storage, inv, started, overlaps, classified, screen>>

ProcessSpec == InitProcess /\ [][ProcessOsmData]_vars

(***************************************************************************)
(* getTrailType called on its own, for each tag set and each activeFilters. *)
(***************************************************************************)
InitClassify ==
  /\ storage = EmptyStore
  /\ inv = [c \in Calls |-> Idle]
  /\ started = 0
  /\ overlaps = 0
  /\ \E tags \in TagSets, activeFilters \in AllFilters :
       classified = [Unclassified EXCEPT !.tags = tags,
                                         !.activeFilters = activeFilters]
  /\ processCall = NotProcessed
  /\ screen = MountedScreen

GetTrailType ==
  /\ ~classified.called
  /\ classified' =
       [classified EXCEPT !.called = TRUE,
                          !.type = getTrailType(classified.tags,
                                                classified.activeFilters)]
  /\ UNCHANGED <<storage, inv, started, overlaps, processCall, screen>>

ClassifySpec == InitClassify /\ [][GetTrailType]_vars

\* NetInfo, AsyncStorage and the timer always get to complete; the remote
\* server owes nothing
Fairness ==
  \A c \in Calls :
    /\ WF_vars(noneSettled /\ NetInfoDone(c))
    /\ WF_vars(noneSettled /\ DeadlinePasses(c))
    /\ WF_vars(noneSettled /\ SetItemDone(c))
    /\ WF_vars(noneSettled /\ GetAllKeysDone(c))
    /\ WF_vars(noneSettled /\ GetItemDone(c))
    /\ WF_vars(Release(c))

FairSpec == Init /\ [][Next]_vars /\ Fairness

(***************************************************************************)
(* Properties.                                                             *)
(***************************************************************************)
\* the hundredth nearest to x thousandths, a half going up
nearestHundredth(x) ==
  CHOOSE h \in (x \div 10 - 1)..(x \div 10 + 1) : 10 * h - 5 <= x /\ x < 10 * h + 5

RoundedKey(latitude, longitude) ==
  <<"trails", nearestHundredth(latitude), nearestHundredth(longitude)>>

\* the frame ran fetchOfflineTrails
ranOffline(f) == f.path \in {"offline", "fallback", "direct"}

\* the trail keys a frame was given by getAllKeys
listedTrailKeys(f) == {k \in f.listed : k[1] = "trails"}

\* squared distance, in hundredths, from a trail key to the rounded query
\* point of fetchOfflineTrails
squaredDistance(f, k) ==
  (k[2] - nearestHundredth(f.offLat)) * (k[2] - nearestHundredth(f.offLat))
  + (k[3] - nearestHundredth(f.offLon)) * (k[3] - nearestHundredth(f.offLon))

\* C1: an invocation of fetchNearbyTrails never rejects; when it settles it
\* has resolved to a list, whatever the probe, the request, the body, the
\* processor and the storage operations did.
C1_NeverRejects ==
  \A c \in Calls :
    /\ inv[c].outcome # "rejected"
    /\ inv[c].pc = "done" =>
         inv[c].outcome = "resolved" /\ inv[c].result.kind = "list"

\* the probe threw and the key listing failed, and the call resolved
C1_Witness ==
  \E c \in Calls :
    /\ inv[c].fn = "fetchNearbyTrails" /\ inv[c].pc = "done"
    /\ inv[c].connected = "throws" /\ inv[c].listing = "rejected"
    /\ inv[c].outcome = "resolved"

\* C2: when the probe reports not connected the invocation makes no network
\* request, runs fetchOfflineTrails on its own latitude and longitude and
\* resolves to what that returns.
C2_OfflineNoRequest ==
  \A c \in Calls :
    inv[c].connected = "no" =>
      /\ inv[c].requests = 0 /\ inv[c].response = "none"
      /\ inv[c].pc \in {"keys", "item", "done"}
      /\ inv[c].offLat = inv[c].latitude /\ inv[c].offLon = inv[c].longitude
      /\ inv[c].pc = "done" =>
           inv[c].outcome = "resolved" /\ inv[c].result = inv[c].offResult

\* an offline call has returned a cached list that is not empty
C2_Witness ==
  \E c \in Calls :
    /\ inv[c].connected = "no" /\ inv[c].pc = "done"
    /\ inv[c].listing = "listed" /\ inv[c].item.ok
    /\ inv[c].result.items # <<>>

\* C3: when the request fails (network error or non-success status) or the
\* body carries no elements list, no processed list is returned or cached:
\* the invocation runs fetchOfflineTrails on its own point and resolves to
\* what that returns.
C3_FailureFallsBack ==
  \A c \in Calls :
    (inv[c].response = "failed" \/ inv[c].body = "unusable") =>
      /\ inv[c].pc \in {"keys", "item", "done"}
      /\ inv[c].path = "fallback" /\ inv[c].write = "none"
      /\ inv[c].offLat = inv[c].latitude /\ inv[c].offLon = inv[c].longitude
      /\ inv[c].pc = "done" =>
           inv[c].outcome = "resolved" /\ inv[c].result = inv[c].offResult

\* a call whose body had no elements list returned a cached list
C3_Witness ==
  \E c \in Calls :
    /\ inv[c].body = "unusable" /\ inv[c].pc = "done"
    /\ inv[c].item.ok /\ inv[c].result.items # <<>>

C5_WriteDoesNotBlock ==
  \A c \in Calls : inv[c].pc = "write" => inv[c].outcome = "resolved"

\* C5, amended: the cache write is awaited.  While the write is pending the
\* call has not settled, and a call that returned its processed list has
\* seen its write settle (stored or failed).
C5_WriteAwaited ==
  \A c \in Calls :
    /\ inv[c].pc = "write" => inv[c].outcome = "none"
    /\ (inv[c].pc = "done" /\ inv[c].path = "success") => inv[c].write # "none"

\* a processed list waits for its write
C5_Witness ==
  \E c \in Calls :
    inv[c].pc = "write" /\ inv[c].trails # <<>> /\ inv[c].outcome = "none"

\* C6: when the cache write fails after a successful fetch, nothing is
\* thrown: the call resolves to the freshly processed list and does not read
\* the cache.
C6_WriteFailureSwallowed ==
  \A c \in Calls :
    inv[c].write = "failed" =>
      /\ inv[c].pc = "done" /\ inv[c].outcome = "resolved"
      /\ inv[c].path = "success" /\ inv[c].listing = "none"
      /\ inv[c].result =
           List(processOsmData(inv[c].data, inv[c].activeFilters).trails)

\* a write failed over a store that holds other trails, and the processed
\* list came back
C6_Witness ==
  \E c \in Calls :
    /\ inv[c].write = "failed" /\ inv[c].pc = "done"
    /\ inv[c].result.items # <<>>
    /\ \E k \in DOMAIN storage : k[1] = "trails"

\* C7 as stated: once the 10 second deadline has passed no request is still
\* in progress, neither waiting for the response nor reading the body, and
\* a request that got no response in time went to the fallback.
C7_DeadlineAborts ==
  \A c \in Calls :
    /\ inv[c].elapsed => inv[c].pc \notin {"fetch", "body"}
    /\ inv[c].response = "late" => inv[c].path = "fallback"

\* C8 as stated: with the probe, the storage operations and the timer
\* always completing, every invocation settles.
C8_AlwaysSettles ==
  \A c \in Calls : inFlight(c) ~> (inv[c].pc = "done")

\* C9: fetchOfflineTrails returns [] when no trail key is listed; otherwise
\* the key it reads is a listed trail key at minimum distance from the
\* rounded query point, and it returns the data stored under that key.
C9_NearestEntry ==
  \A c \in Calls :
    LET f == inv[c]
        K == listedTrailKeys(f)
        nearest == f.closestKey \in K
                   /\ \A k \in K :
                        squaredDistance(f, f.closestKey) <= squaredDistance(f, k)
    IN  /\ (f.pc = "item" /\ f.listing = "listed") => nearest
        /\ (f.pc = "done" /\ ranOffline(f) /\ f.listing = "listed") =>
             IF K = {} THEN f.offResult = List(<<>>)
             ELSE /\ nearest
                  /\ f.item.ok =>
                       /\ f.closestKey \in DOMAIN storage
                       /\ f.item.value = storage[f.closestKey]
                       /\ f.offResult = List(storage[f.closestKey].data)

\* a read chose the nearer of two trail keys and returned its trails
C9_Witness ==
  \E c \in Calls :
    /\ inv[c].pc = "done" /\ ranOffline(inv[c]) /\ inv[c].item.ok
    /\ \E k \in listedTrailKeys(inv[c]) :
         squaredDistance(inv[c], k) > squaredDistance(inv[c], inv[c].closestKey)
    /\ inv[c].offResult.items # <<>>

\* C10 as stated: fetchOfflineTrails returns [] whenever the key listing
\* fails, the read of the chosen entry fails, or the text read is not a
\* well-formed {timestamp, data} entry.
C10_EmptyOnBadRead ==
  \A c \in Calls :
    LET f == inv[c]
    IN  (/\ f.pc = "done" /\ ranOffline(f)
         /\ \/ f.listing = "rejected"
            \/ /\ f.listing = "listed" /\ listedTrailKeys(f) # {}
               /\ (~f.item.ok \/ f.item.value.kind # "entry")) =>
          f.outcome = "resolved" /\ f.offResult = List(<<>>)

\* a run of fetchOfflineTrails(latitude, longitude) in which getAllKeys
\* lists `keys` and getItem reads from `store`, neither failing: the value
\* it returns
readNearest(store, keys, latitude, longitude) ==
  LET f == afterGetAllKeys(fetchOfflineTrails(Idle, latitude, longitude,
                                              "direct"), keys)
  IN  IF f.pc = "done" THEN f.offResult
      ELSE afterGetItem(f, getItem(store, f.closestKey)).offResult

\* C11 as stated: once cacheTrailData has stored the list T of a call for
\* its point, fetchOfflineTrails for any point that rounds to the same key
\* returns a list identical to T, whatever else the store holds and in
\* whatever order its keys are listed.
C11_RoundTrip ==
  [][\A c \in Calls :
       (inv[c].pc = "write" /\ inv'[c].write \in {"stored", "replaced"}) =>
         \A q \in Points :
           RoundedKey(q[1], q[2]) = RoundedKey(inv[c].latitude, inv[c].longitude)
             => \A keys \in Orders(DOMAIN storage') :
                  readNearest(storage', keys, q[1], q[2]) = List(inv[c].trails)]_vars

\* the lists a call can hand to cacheTrailData, as JSON.stringify writes them
processedLists ==
  {jsonTrails(processOsmData(e, filters).trails) :
     e \in {l \in ElementLists : ~processThrows(l)}, filters \in FilterChoices}

\* the lists the store starts with
initialLists == {jsonTrails(OldTrails(id)) : id \in {31, 32, 33}}

\* C12: a call that starts leaves every call in flight as it is (nothing of
\* an older call is aborted or reset); each call's write, when it is
\* applied, leaves under its key the complete list of that call, whichever
\* call was issued first; and every entry of the store is at all times the
\* complete list of one call, never a mixture of two.
C12_LastWriteWins ==
  [][/\ \A c \in Calls :
          (inv[c].pc = "idle" /\ inv'[c].pc # "idle") =>
            \A d \in Calls \ {c} : inv'[d] = inv[d]
     /\ \A c \in Calls :
          (inv[c].pc = "write" /\ inv'[c].write \in {"stored", "replaced"}) =>
            /\ storage'[inv[c].pendingKey].data = jsonTrails(inv[c].trails)
            /\ \A d \in Calls \ {c} : inv'[d] = inv[d]
     /\ \A k \in DOMAIN storage' :
          isTrailKey(k) =>
            storage'[k].data \in processedLists \cup initialLists]_vars

\* two calls overlapped on one key over an empty store; the call issued
\* second has written and returned, and the call issued first (slot a) has
\* then replaced that entry by its own list
C12_Witness ==
  /\ started = 2 /\ overlaps = 1
  /\ inv["b"].pc = "idle"
  /\ inv["a"].pc = "done" /\ inv["a"].write = "replaced"
  /\ inv["a"].trails # <<>>
  /\ DOMAIN storage = {inv["a"].pendingKey}
  /\ storage[inv["a"].pendingKey].data = jsonTrails(inv["a"].trails)

\* the store with the timestamp of every entry replaced by t
withTimestamp(store, t) ==
  [k \in DOMAIN store |-> [store[k] EXCEPT !.timestamp = t]]

\* C13: no step removes a key from the store, and the timestamps of the
\* entries have no part in what fetchOfflineTrails chooses and returns: a
\* read that completes returns what it would have returned with any other
\* timestamp on the entries (the key it reads was chosen from the listed
\* keys alone).
C13_NeverExpires ==
  [][/\ DOMAIN storage \subseteq DOMAIN storage'
     /\ \A c \in Calls, t \in 0..(MaxTimestamp + 1) :
          (inv[c].pc = "item" /\ inv'[c].pc = "done" /\ inv'[c].item.ok) =>
            inv'[c].offResult =
              afterGetItem(inv[c], getItem(withTimestamp(storage, t),
                                           inv[c].closestKey)).offResult]_vars

\* after a write under a new key the two older entries are still there, and
\* a read has returned the trails of one of the entries
C13_Witness ==
  \E c \in Calls :
    /\ started = 2
    /\ inv[c].pc = "done" /\ ranOffline(inv[c]) /\ inv[c].item.ok
    /\ inv[c].offResult.items # <<>>
    /\ Cardinality({k \in DOMAIN storage : isTrailKey(k)}) = 3

\* C14: an invocation of fetchNearbyTrails calls NetInfo.fetch exactly once,
\* whatever path it then takes, and makes no network request while the
\* probe is pending: a request has been made only if the probe has
\* completed.
C14_ProbeOnceFirst ==
  \A c \in Calls :
    inv[c].fn = "fetchNearbyTrails" =>
      /\ inv[c].probes = 1
      /\ inv[c].pc = "probe" => inv[c].requests = 0
      /\ inv[c].requests > 0 => inv[c].connected # "none"

\* a call probed once, made its request and, the request having failed,
\* returned from the cache without probing again
C14_Witness ==
  \E c \in Calls :
    /\ inv[c].fn = "fetchNearbyTrails" /\ inv[c].pc = "done"
    /\ inv[c].probes = 1 /\ inv[c].requests = 1
    /\ inv[c].response = "failed" /\ inv[c].path = "fallback"

\* the records of a stored entry
storedRecords(k) == {storage[k].data[i] : i \in 1..Len(storage[k].data)}

\* the records a settled call has returned
returnedRecords(c) ==
  {inv[c].result.items[i] : i \in 1..Len(inv[c].result.items)}

\* C15: from an empty store, whatever calls are made, every record a call
\* has returned and every record in the store has at least two coordinates
\* (no record is without geometry; the code never emits the point-only form).
C15_HasGeometry ==
  /\ \A c \in Calls :
       inv[c].pc = "done" =>
         /\ inv[c].result.kind = "list"
         /\ \A r \in returnedRecords(c) : Len(r.coordinates) >= 2
  /\ \A k \in DOMAIN storage :
       isTrailKey(k) => \A r \in storedRecords(k) : Len(r.coordinates) >= 2

\* a response with a way of three resolvable nodes and a way of one was
\* cached, and a later call that fell back to the cache returned its single
\* record
C15_Witness ==
  \E c \in Calls :
    /\ inv[c].pc = "done" /\ inv[c].path \in {"offline", "fallback"}
    /\ inv[c].item.ok /\ Len(inv[c].result.items) = 1
    /\ \E filters \in FilterChoices :
         storage[inv[c].closestKey].data =
           jsonTrails(processOsmData(SharedUseElements, filters).trails)

Categories == {"Bridleway", "Footpath", "Cycleway", "Path"}

\* C16: from an empty store, whatever calls are made, the type of every
\* record returned or stored is one of Bridleway, Footpath, Cycleway, Path;
\* and getTrailType gives one of the four for every tag set and every
\* activeFilters, the omitted one included (the function is evaluated over
\* all of them once, in the initial state).
C16_TypeInCategories ==
  /\ \A c \in Calls :
       inv[c].pc = "done" =>
         \A r \in returnedRecords(c) : r.type \in Categories
  /\ \A k \in DOMAIN storage :
       isTrailKey(k) => \A r \in storedRecords(k) : r.type \in Categories
  /\ started = 0 =>
       \A tags \in TagSets, filters \in AllFilters :
         getTrailType(tags, filters) \in Categories

\* a shared-use way was cached as a Footpath by a call whose filters have
\* Bridleway off, and a later call that fell back to the cache returned it
C16_Witness ==
  \E c \in Calls :
    /\ inv[c].pc = "done" /\ inv[c].path \in {"offline", "fallback"}
    /\ \E r \in returnedRecords(c) : r.type = "Footpath"
    /\ \E r \in storedRecords(inv[c].closestKey) : r.type = "Footpath"

\* the tag predicates of the three categories, as the classifier's
\* description gives them
bridlewayTags(tags) ==
  \/ tags.highway = "bridleway"
  \/ tags.horse \in {"yes", "designated"}
  \/ tags.designation = "public_bridleway"

cyclewayTags(tags) ==
  tags.highway = "cycleway" \/ tags.bicycle \in {"yes", "designated"}

footpathTags(tags) ==
  \/ tags.highway = "footway"
  \/ tags.foot \in {"yes", "designated"}
  \/ tags.designation = "public_footpath"

\* the categories a tag set matches
matched(tags) ==
  {t \in {"Bridleway", "Cycleway", "Footpath"} :
     \/ t = "Bridleway" /\ bridlewayTags(tags)
     \/ t = "Cycleway" /\ cyclewayTags(tags)
     \/ t = "Footpath" /\ footpathTags(tags)}

\* the first category of S in the order Bridleway, Cycleway, Footpath
firstOf(S) ==
  IF "Bridleway" \in S THEN "Bridleway"
  ELSE IF "Cycleway" \in S THEN "Cycleway"
  ELSE "Footpath"

\* C17: with activeFilters supplied and a tag set that matches some
\* category, getTrailType returns the first category, in the order
\* Bridleway, Cycleway, Footpath, that is matched and active, and when no
\* matched category is active the first matched one.
C17_FirstActiveMatch ==
  LET M == matched(classified.tags)
      A == {t \in M : classified.activeFilters[t]}
  IN  (classified.called /\ classified.activeFilters.supplied /\ M # {}) =>
        classified.type = IF A # {} THEN firstOf(A) ELSE firstOf(M)

\* a tag set matching Bridleway and Footpath, with Bridleway off and
\* Footpath on, was classified Footpath
C17_Witness ==
  /\ classified.called /\ classified.activeFilters.supplied
  /\ matched(classified.tags) = {"Bridleway", "Footpath"}
  /\ ~classified.activeFilters.Bridleway /\ classified.activeFilters.Footpath
  /\ classified.type = "Footpath"

\* C18: with activeFilters omitted, getTrailType returns the matched
\* category of highest precedence, Bridleway before Cycleway before
\* Footpath.
C18_DefaultPrecedence ==
  LET M == matched(classified.tags)
  IN  (classified.called /\ ~classified.activeFilters.supplied /\ M # {}) =>
        /\ classified.type \in M
        /\ classified.type = "Cycleway" => "Bridleway" \notin M
        /\ classified.type = "Footpath" => M = {"Footpath"}

\* a tag set matching Cycleway and Footpath was classified Cycleway without
\* filters
C18_Witness ==
  /\ classified.called /\ ~classified.activeFilters.supplied
  /\ matched(classified.tags) = {"Cycleway", "Footpath"}
  /\ classified.type = "Cycleway"

\* C19: a tag set that matches exactly one of Bridleway, Cycleway, Footpath
\* is given that category, whatever activeFilters is: omitted, all false, or
\* with that category off.
C19_SingleMatch ==
  (classified.called /\ Cardinality(matched(classified.tags)) = 1) =>
    matched(classified.tags) = {classified.type}

\* a tag set matching only Cycleway was classified Cycleway with every
\* filter off
C19_Witness ==
  /\ classified.called
  /\ classified.activeFilters = Filters(FALSE, FALSE, FALSE, FALSE)
  /\ matched(classified.tags) = {"Cycleway"}
  /\ classified.type = "Cycleway"

\* C20: a tag set that matches none of Bridleway, Cycleway, Footpath is
\* given Path, whatever activeFilters is, Path switched off included.
C20_NoMatchIsPath ==
  (classified.called /\ matched(classified.tags) = {}) =>
    classified.type = "Path"

\* a way tagged highway=path only was classified Path with Path off
C20_Witness ==
  /\ classified.called /\ classified.tags.highway = "path"
  /\ matched(classified.tags) = {}
  /\ classified.activeFilters.supplied /\ ~classified.activeFilters.Path
  /\ classified.type = "Path"

\* the response holds a node element of identifier n
hasNode(elements, n) ==
  \E j \in 1..Len(elements) : elements[j].type = "node" /\ elements[j].id = n

\* the references of a way that resolve, in the way's own order
resolvable(elements, ids) == SelectSeq(ids, LAMBDA n : hasNode(elements, n))

\* the point of the node of identifier n
nodePoint(elements, n) ==
  LET j == CHOOSE j \in 1..Len(elements) :
             /\ elements[j].type = "node" /\ elements[j].id = n
             /\ \A l \in (j + 1)..Len(elements) :
                  ~(elements[l].type = "node" /\ elements[l].id = n)
  IN  [def |-> elements[j].hasPos, lat |-> elements[j].lat,
       lon |-> elements[j].lon]

\* the coordinates a way of the response is to be given
coordinatesOf(elements, i) ==
  LET ids == resolvable(elements, elements[i].nodes)
  IN  [k \in 1..Len(ids) |-> nodePoint(elements, ids[k])]

\* the positions of the way elements that are to give a record: tagged ways
\* that satisfy isPathOrTrail or isBridleway and resolve at least 2 nodes
qualifying(elements) ==
  {i \in 1..Len(elements) :
     /\ elements[i].type = "way" /\ elements[i].hasTags
     /\ (isPathOrTrail(elements[i].tags) \/ isBridleway(elements[i].tags))
     /\ Len(resolvable(elements, elements[i].nodes)) >= 2}

\* record r is the record of the way at position i
recordOfWay(r, elements, i, activeFilters) ==
  /\ r.coordinates = coordinatesOf(elements, i)
  /\ r.type = getTrailType(elements[i].tags, activeFilters)
  /\ r.distance = [kind |-> "km", along |-> coordinatesOf(elements, i)]

\* the position of the k-th qualifying way
kthOf(Q, k) == CHOOSE i \in Q : Cardinality({j \in Q : j < i}) = k - 1

C22_SourceOrder ==
  processCall.called =>
    LET e == processCall.elements
        Q == qualifying(e)
    IN  /\ Len(processCall.trails) = Cardinality(Q)
        /\ \A k \in 1..Len(processCall.trails) :
             /\ processCall.trails[k].id = <<"osm-", e[kthOf(Q, k)].id>>
             /\ recordOfWay(processCall.trails[k], e, kthOf(Q, k),
                            processCall.activeFilters)

\* way 11 came before way 10 in the response and so did their records, and
\* the two records share two coordinates
C22_Witness ==
  /\ processCall.called /\ Len(processCall.trails) = 2
  /\ processCall.trails[1].id = <<"osm-", 11>>
  /\ processCall.trails[2].id = <<"osm-", 10>>
  /\ processCall.trails[1].coordinates = processCall.trails[2].coordinates

\* the elements of a response that are not relations
withoutRelations(elements) ==
  SelectSeq(elements, LAMBDA x : x.type # "relation")

nodesFirst(elements) ==
  SelectSeq(elements, LAMBDA x : x.type = "node")
  \o SelectSeq(elements, LAMBDA x : x.type # "node")

\* the node elements of a response after its other elements
nodesLast(elements) ==
  SelectSeq(elements, LAMBDA x : x.type # "node")
  \o SelectSeq(elements, LAMBDA x : x.type = "node")

\* C25: where the node elements sit in the response does not matter:
\* processOsmData gives for a response what it gives with the nodes moved
\* before, or after, all other elements, and each record has one coordinate
\* for every reference of its way to a node that occurs anywhere in the
\* response.
C25_NodePositionFree ==
  processCall.called =>
    LET e == processCall.elements
        Q == qualifying(e)
    IN  /\ processOsmData(nodesFirst(e), processCall.activeFilters).trails
             = processCall.trails
        /\ processOsmData(nodesLast(e), processCall.activeFilters).trails
             = processCall.trails
        /\ Len(processCall.trails) = Cardinality(Q)
        /\ \A k \in 1..Len(processCall.trails) :
             processCall.trails[k].coordinates = coordinatesOf(e, kthOf(Q, k))

\* a footway listed before its three nodes got its three coordinates
C25_Witness ==
  /\ processCall.called
  /\ processCall.elements # <<>>
  /\ processCall.elements[1] = Way(10, Footway, <<1, 2, 3>>)
  /\ Len(processCall.trails) = 1
  /\ Len(processCall.trails[1].coordinates) = 3

\* C30 as stated: every tagged way that getTrailType labels Bridleway,
\* Cycleway or Footpath and that resolves at least 2 nodes has a record in
\* the output of processOsmData.
C30_EligibilityCoversClassifier ==
  processCall.called =>
    \A i \in 1..Len(processCall.elements) :
      LET x == processCall.elements[i]
      IN  (/\ x.type = "way" /\ x.hasTags
           /\ getTrailType(x.tags, processCall.activeFilters)
                \in {"Bridleway", "Cycleway", "Footpath"}
           /\ Len(resolvable(processCall.elements, x.nodes)) >= 2) =>
            \E k \in 1..Len(processCall.trails) :
              processCall.trails[k].id = <<"osm-", x.id>>

\* C26 as stated: the refetch that a toggle triggers passes to
\* fetchNearbyTrails the filter settings after the toggle (newFilters).
C26_RefetchUsesNewFilters ==
  screen.refetched => screen.passed = screen.newFilters

\* C27: the store changes only in the step that completes the setItem of a
\* fetchNearbyTrails call that was online, got a successful response with a
\* usable body and returns its processed list; a step of a readNearest
\* call, of an offline call or of a call in the failure fallback leaves
\* every key and value as it was, and such a call has written nothing
\* before.
C27_OnlySuccessWrites ==
  [][/\ storage' # storage =>
          \E c \in Calls :
            /\ inv[c].pc = "write" /\ inv'[c].pc = "done"
            /\ inv'[c].path = "success"
            /\ inv'[c].write \in {"stored", "replaced"}
            /\ inv[c].fn = "fetchNearbyTrails" /\ inv[c].connected = "yes"
            /\ inv[c].response = "ok" /\ inv[c].body = "usable"
     /\ \A c \in Calls :
          (inv'[c] # inv[c] /\ ranOffline(inv'[c])) =>
            storage' = storage /\ inv'[c].write = "none"]_vars

\* two calls have been made over the store with two old entries, the later
\* one fell back to the cache and returned trails, and the store is as it
\* was at the start
C27_Witness ==
  \E c \in Calls :
    /\ started = 2 /\ inv[c].pc = "done" /\ inv[c].path = "fallback"
    /\ inv[c].item.ok /\ inv[c].result.items # <<>>
    /\ storage = TiedStore

\* C28: what a call served from the cache returns does not depend on its
\* activeFilters: the step that ends fetchOfflineTrails, taken with any
\* other activeFilters over the same entry, returns the same list; the
\* records returned are the stored ones, with the types they were cached
\* with, and without a listed trail key the list is empty.
C28_CacheIgnoresFilters ==
  [][\A c \in Calls :
       /\ (inv[c].pc = "keys" /\ inv'[c].pc = "done") =>
            inv'[c].result = List(<<>>)
       /\ (inv[c].pc = "item" /\ inv'[c].pc = "done") =>
            /\ \A filters \in AllFilters :
                 afterGetItem([inv[c] EXCEPT !.activeFilters = filters],
                              inv'[c].item).result
                   = inv'[c].result
            /\ inv'[c].item.ok =>
                 inv'[c].result = List(storage[inv[c].closestKey].data)]_vars

\* a call without activeFilters fell back to the cache and returned the
\* shared-use way as a Footpath, the type given by the call that cached it
\* with Bridleway off; its own getTrailType would say Bridleway
C28_Witness ==
  \E c \in Calls :
    /\ inv[c].fn = "fetchNearbyTrails" /\ inv[c].pc = "done"
    /\ inv[c].path \in {"offline", "fallback"}
    /\ inv[c].activeFilters = NoFilters
    /\ \E r \in returnedRecords(c) :
         r.id = <<"osm-", 10>> /\ r.type = "Footpath"
    /\ getTrailType(SharedUse, NoFilters) = "Bridleway"

\* C29: a successful fetch whose processed list is empty is cached like any
\* other: the body step goes on to the write with an entry whose data is
\* [], the write puts that entry under the rounded key whatever was there,
\* and a cache read that gets such an entry returns the empty list.
C29_EmptyListOverwrites ==
  [][\A c \in Calls :
       LET k == RoundedKey(inv[c].latitude, inv[c].longitude)
       IN  /\ (/\ inv[c].pc = "body" /\ inv'[c].body = "usable"
               /\ ~processThrows(inv'[c].data)
               /\ processOsmData(inv'[c].data,
                                 inv[c].activeFilters).trails = <<>>) =>
                 /\ inv'[c].pc = "write" /\ inv'[c].pendingKey = k
                 /\ inv'[c].pendingValue.kind = "entry"
                 /\ inv'[c].pendingValue.data = <<>>
           /\ (/\ inv[c].pc = "write" /\ inv[c].trails = <<>>
               /\ inv'[c].write \in {"stored", "replaced"}) =>
                 /\ k \in DOMAIN storage'
                 /\ storage'[k].kind = "entry" /\ storage'[k].data = <<>>
                 /\ inv'[c].path = "success" /\ inv'[c].result = List(<<>>)
           /\ (/\ inv[c].pc = "item" /\ inv'[c].item.ok
               /\ storage[inv[c].closestKey].kind = "entry"
               /\ storage[inv[c].closestKey].data = <<>>) =>
                 inv'[c].pc = "done" /\ inv'[c].result = List(<<>>)]_vars

\* the store began with a non-empty list under (5150, -12); a fetch there
\* yielding no record has replaced it, and the next call, served from the
\* cache under that key, has returned the empty list
C29_Witness ==
  \E c \in Calls :
    /\ started = 2 /\ inv[c].pc = "done" /\ ranOffline(inv[c])
    /\ cacheKey(51530, -120) \in DOMAIN storage
    /\ FarStore[cacheKey(51500, -120)].data # <<>>
    /\ inv[c].closestKey = cacheKey(51500, -120)
    /\ inv[c].item.ok
    /\ storage[inv[c].closestKey].data = <<>>
    /\ inv[c].result = List(<<>>)

=============================================================================
